---- MODULE Spec2Model ----
(***************************************************************************)
(* Model of src/app.py: the batch endpoint /process_embeddings (provision, *)
(* enumerate, fan out process_single_blob on a ThreadPoolExecutor of five  *)
(* workers, aggregate) and the endpoint /process_single_embedding.         *)
(*                                                                         *)
(* Strings that the code inspects (user_id, blob names) are sequences of   *)
(* one-character strings, so that startswith and the f-string prefixing    *)
(* are computed.  The two result lists of a batch are kept up to order (as *)
(* bags): the code only appends to them and no reader depends on order.    *)
(***************************************************************************)
EXTENDS Naturals, Sequences, FiniteSets, Bags, TLC

\* ---------------------------------------------------------------- bounds
\* Objects of the user with the large job list, in Spec and in SpecPool.
MaxBlobs == 3
PoolBlobs == 6
\* Injected failures of storage / embedding calls per behaviour.
MaxFaults == 2
PoolFaults == 0
\* Requests handled per behaviour.
MaxRequests == 2
\* Longest blob_name drawn for the normalization specification.
MaxLen == 3

\* ------------------------------------------------------- program constants
max_workers == 5

\* ------------------------------------------------------------------ strings
Alphabet == <<"/", "a", "b", "c", "d", "e", "f", "g", "h", "u", "v", "w">>

CharRank(c) == CHOOSE i \in 1..Len(Alphabet) : Alphabet[i] = c

\* str.startswith
StartsWith(s, p) == Len(p) <= Len(s) /\ SubSeq(s, 1, Len(p)) = p

\* f"{user_id}/"
user_prefix(user_id) == user_id \o <<"/">>

\* Lexicographic order of blob names (the order of a blob listing).
RECURSIVE LexLess(_, _)
LexLess(s, t) ==
    IF s = <<>> THEN t # <<>>
    ELSE IF t = <<>> THEN FALSE
    ELSE IF Head(s) = Head(t) THEN LexLess(Tail(s), Tail(t))
    ELSE CharRank(Head(s)) < CharRank(Head(t))

RECURSIVE SortNames(_)
SortNames(S) ==
    IF S = {} THEN <<>>
    ELSE LET m == CHOOSE x \in S : \A y \in S \ {x} : LexLess(x, y)
         IN  <<m>> \o SortNames(S \ {m})

\* The absent JSON field (data.get returns None) and the empty string are the
\* two falsy inputs of "if not user_id".
None == <<"None">>

\* Variant: "if user_id is None", which lets the empty string through.
Falsy_none_only(x) == x = None

Falsy(x) == x = None \/ x = <<>>

\* ------------------------------------------------------- metadata contents
\* Raw contents of metadata blobs and what json.loads makes of each: a
\* mapping (ordered key/value pairs), a JSON value that is no mapping, or a
\* JSONDecodeError.
RawWithPath == "{\"file_path\": \"docs/p\", \"title\": \"t\"}"
RawNoPath == "{\"title\": \"t\", \"size\": 7}"
RawList == "[1, 2]"
RawBroken == "{not json"

json_loads(raw) ==
    CASE raw = RawWithPath ->
           [exc |-> "", type |-> "dict",
            items |-> << <<"file_path", "docs/p">>, <<"title", "t">> >>]
      [] raw = RawNoPath ->
           [exc |-> "", type |-> "dict",
            items |-> << <<"title", "t">>, <<"size", "7">> >>]
      [] raw = RawList ->
           [exc |-> "", type |-> "list", items |-> << <<"0", "1">>, <<"1", "2">> >>]
      [] OTHER ->
           [exc |-> "JSONDecodeError", type |-> "none", items |-> <<>>]

\* metadata.get("file_path", "unknown_path"); AttributeError on a non-mapping.
metadata_get(metadata, key, default) ==
    IF metadata.type # "dict" THEN [exc |-> "AttributeError", value |-> ""]
    ELSE LET hits == {i \in 1..Len(metadata.items) : metadata.items[i][1] = key}
         IN  IF hits = {} THEN [exc |-> "", value |-> default]
             ELSE [exc |-> "", value |-> metadata.items[CHOOSE i \in hits : TRUE][2]]

\* " ".join(str(value) for value in metadata.values())
RECURSIVE join_values(_)
join_values(items) ==
    IF items = <<>> THEN <<>>
    ELSE IF Len(items) = 1 THEN <<items[1][2]>>
    ELSE <<items[1][2], " ">> \o join_values(Tail(items))

\* The embedding service is an opaque function of the input text.
embedding_of(text) == <<"vec">> \o text

\* upload_embeddings: the record that is serialized and written.
embeddings_data(file_name, embeddings, file_path) ==
    [file_name |-> file_name, embeddings |-> embeddings, file_path |-> file_path]

\* A record left in the embeddings container by an earlier deployment.
StaleData == [file_name |-> <<"o", "l", "d">>, embeddings |-> <<"vec">>,
              file_path |-> "old"]

\* blob_client.upload_blob(data, overwrite): a container holds at most one
\* blob per name; overwrite replaces it, otherwise an existing blob is an error.
upload_blob(store, name, data, overwrite) ==
    IF overwrite
    THEN [exc |-> "", store |-> {o \in store : o.name # name} \cup {[name |-> name, data |-> data]}]
    ELSE IF \E o \in store : o.name = name
         THEN [exc |-> "BlobAlreadyExists", store |-> store]
         ELSE [exc |-> "", store |-> store \cup {[name |-> name, data |-> data]}]

\* -------------------------------------------------------------------- state
VARIABLES
    metadataStore,     \* weez-files-metadata: blob name -> raw content
    container_exists,  \* whether weez-files-embeddings exists
    embStore,          \* weez-files-embeddings: set of [name, data]
    faultsLeft,        \* failures the environment may still inject
    requestsLeft,      \* requests still to arrive
    pc,                \* position of the request handler
    endpoint,          \* "none", "batch" or "single": the route being served
    user_id,           \* data.get('user_id')
    blob_name,         \* data.get('blob_name'), reassigned by the normalization
    response,          \* the last response returned
    ops,               \* storage / embedding calls made by the current request
    fatal,             \* history: the provisioning / enumeration failure of the
                       \* current request, "" if none
    blobs,             \* list(fetch_user_blobs(...))
    jobs,              \* futures, in submission order, with their worker's locals
    work_queue,        \* the executor's FIFO of submitted, unstarted jobs
    collected,         \* futures already yielded by as_completed
    processed_files,
    failed_files,
    raised,            \* exception propagating out of the batch loop, "" if none
    item,              \* locals of the single-item path
    lastWritten,       \* history: blob name -> data of the last successful write
                       \* there and the number of writes made by this program
    n_user, n_name, n_once, n_twice, n_pc,  \* normalization specification
    other,             \* a request served by another thread, followed through
                       \* its provisioning (lines 70-71 / 118-119)
    run                \* history of the current request: the embeddings container
                       \* when it arrived, the blob_name it carried, the calls made

storageVars == <<metadataStore, container_exists, embStore, lastWritten>>
envVars == <<faultsLeft, requestsLeft>>
reqVars == <<pc, endpoint, user_id, blob_name, response, ops, fatal>>
batchVars == <<blobs, jobs, work_queue, collected, processed_files, failed_files, raised>>
normVars == <<n_user, n_name, n_once, n_twice, n_pc>>
vars == <<storageVars, envVars, reqVars, batchVars, item, normVars, other, run>>

\* ------------------------------------------------------------- the storage
Users == {<<"u">>, <<"v">>, <<"w">>}
RequestUserIds == Users \cup {None, <<>>}

BlobName(user, i) == user_prefix(user) \o <<Alphabet[i + 1]>>

\* Contents by position: a mapping with file_path, unparseable text, a mapping
\* without file_path, a JSON list.
RawOf(i) ==
    CASE i % 4 = 1 -> RawWithPath
      [] i % 4 = 2 -> RawBroken
      [] i % 4 = 3 -> RawNoPath
      [] OTHER -> RawList

\* User u owns n objects of mixed content, user v two well-formed ones, user w
\* none; a user uv, whose id begins with u's, owns one.
MetadataWith(n) ==
    [name \in {BlobName(<<"u">>, i) : i \in 1..n}
              \cup {BlobName(<<"v">>, 1), BlobName(<<"v">>, 2), BlobName(<<"u", "v">>, 1)} |->
        IF name \in {BlobName(<<"v">>, 1), BlobName(<<"u", "v">>, 1)} THEN RawWithPath
        ELSE IF name = BlobName(<<"v">>, 2) THEN RawNoPath
        ELSE RawOf(CHOOSE i \in 1..n : name = BlobName(<<"u">>, i))]

StaleStore == {[name |-> BlobName(<<"u">>, 1), data |-> StaleData],
               [name |-> BlobName(<<"v">>, 2), data |-> StaleData]}

SingleBlobNames ==
    {<<"a">>, <<"b">>, BlobName(<<"u">>, 1), BlobName(<<"v">>, 2), <<"u", "a">>, None, <<>>}

NoResponse == [code |-> 0, kind |-> "none", message |-> "", blob_name |-> <<>>,
               processed_files |-> EmptyBag, failed_files |-> EmptyBag]

NoItem == [metadata |-> json_loads(RawBroken), file_path |-> "", embeddings |-> <<>>]

NoOther == [pc |-> "off", error |-> ""]

NoRun == [store0 |-> {}, raw_name |-> None, touched |-> {}, written |-> {}, log |-> <<>>,
          fault_at |-> ""]

MainInit(nBlobs, nFaults, nRequests) ==
    /\ metadataStore = MetadataWith(nBlobs)
    /\ \/ container_exists = FALSE /\ embStore = {}
       \/ container_exists = TRUE /\ embStore = StaleStore
    /\ lastWritten = [name \in {o.name : o \in embStore} |->
                        [data |-> (CHOOSE o \in embStore : o.name = name).data, count |-> 0]]
    /\ faultsLeft = nFaults
    /\ requestsLeft = nRequests
    /\ pc = "idle"
    /\ endpoint = "none"
    /\ user_id = None
    /\ blob_name = None
    /\ response = NoResponse
    /\ ops = {}
    /\ fatal = ""
    /\ blobs = <<>>
    /\ jobs = <<>>
    /\ work_queue = <<>>
    /\ collected = {}
    /\ processed_files = EmptyBag
    /\ failed_files = EmptyBag
    /\ raised = ""
    /\ item = NoItem
    /\ run = NoRun

NormOff == n_user = <<>> /\ n_name = <<>> /\ n_once = <<>> /\ n_twice = <<>> /\ n_pc = "off"

Init == MainInit(MaxBlobs, MaxFaults, MaxRequests) /\ NormOff /\ other = NoOther

\* The message of a failed storage call and of a failed embedding call.  The
\* storage client raises the same error whichever call hits the outage.
StorageFault == "ServiceRequestError"
EmbeddingFault == "APIConnectionError"

\* Whether the environment makes the next external call fail.
FaultChoices == IF faultsLeft > 0 THEN {FALSE, TRUE} ELSE {FALSE}
Spend(fail) == faultsLeft' = IF fail THEN faultsLeft - 1 ELSE faultsLeft

\* ------------------------------------------------------ the item pipeline
\* Variant: content that does not parse is taken as an empty mapping.
ReadStep_lenient(name, fail) ==
    IF fail THEN [exc |-> StorageFault, step |-> "read", metadata |-> NoItem.metadata, file_path |-> ""]
    ELSE IF name \notin DOMAIN metadataStore
    THEN [exc |-> "BlobNotFound", step |-> "read", metadata |-> NoItem.metadata, file_path |-> ""]
    ELSE LET metadata == json_loads(metadataStore[name])
         IN  IF metadata.exc # "" \/ metadata.type # "dict"
             THEN [exc |-> "", step |-> "", metadata |-> NoItem.metadata,
                   file_path |-> "unknown_path"]
             ELSE [exc |-> "", step |-> "", metadata |-> metadata,
                   file_path |-> metadata_get(metadata, "file_path", "unknown_path").value]

\* Lines 55-57 (and 125-127): read the blob, parse it, take file_path.  The
\* result names the exception raised, "" if none.
ReadStep(name, fail) ==
    IF fail THEN [exc |-> StorageFault, step |-> "read", metadata |-> NoItem.metadata, file_path |-> ""]
    ELSE IF name \notin DOMAIN metadataStore
    THEN [exc |-> "BlobNotFound", step |-> "read", metadata |-> NoItem.metadata, file_path |-> ""]
    ELSE LET metadata == json_loads(metadataStore[name])
             got == metadata_get(metadata, "file_path", "unknown_path")
         IN  IF metadata.exc # ""
             THEN [exc |-> metadata.exc, step |-> "parse", metadata |-> NoItem.metadata, file_path |-> ""]
             ELSE IF got.exc # ""
             THEN [exc |-> got.exc, step |-> "parse", metadata |-> NoItem.metadata, file_path |-> ""]
             ELSE [exc |-> "", step |-> "", metadata |-> metadata, file_path |-> got.value]

\* Line 58 (and 128): compute_embeddings_with_azure_openai.
compute_embeddings_with_azure_openai(metadata, fail) ==
    LET text == join_values(metadata.items)
    IN  IF fail THEN [exc |-> EmbeddingFault, step |-> "embed", embeddings |-> <<>>]
        ELSE [exc |-> "", step |-> "", embeddings |-> embedding_of(text)]

\* Variant: upload_blob called without overwrite=True.
upload_embeddings_no_overwrite(name, file_name, embeddings, file_path, fail) ==
    IF fail THEN [exc |-> StorageFault, step |-> "write", store |-> embStore]
    ELSE IF ~container_exists
    THEN [exc |-> "ContainerNotFound", step |-> "write", store |-> embStore]
    ELSE LET up == upload_blob(embStore, name,
                               embeddings_data(file_name, embeddings, file_path), FALSE)
         IN  [exc |-> up.exc, step |-> IF up.exc = "" THEN "" ELSE "write", store |-> up.store]

\* Lines 43-50, called at 59-60 (and 129-130): upload_embeddings on the blob
\* client of `name` in the embeddings container.
upload_embeddings(name, file_name, embeddings, file_path, fail) ==
    IF fail THEN [exc |-> StorageFault, step |-> "write", store |-> embStore]
    ELSE IF ~container_exists
    THEN [exc |-> "ContainerNotFound", step |-> "write", store |-> embStore]
    ELSE LET up == upload_blob(embStore, name,
                               embeddings_data(file_name, embeddings, file_path), TRUE)
         IN  [exc |-> up.exc, step |-> IF up.exc = "" THEN "" ELSE "write", store |-> up.store]

\* History: the data of the last successful write at each name.
Written(name, file_name, embeddings, file_path) ==
    (name :> [data |-> embeddings_data(file_name, embeddings, file_path),
              count |-> IF name \in DOMAIN lastWritten THEN lastWritten[name].count + 1
                        ELSE 1])
    @@ lastWritten

\* What process_single_blob returns: lines 61 and 62-63.  A future holds either
\* a value or the exception that escaped the call.
ReturnSuccess(name) ==
    [exc |-> "", blob |-> name, status |-> "success", error |-> ""]
\* Variant: the except clause reports a fixed text instead of str(e).
ReturnFailed_generic(name, e) ==
    [exc |-> "", blob |-> name, status |-> "failed", error |-> "Processing failed"]

ReturnFailed(name, e) ==
    [exc |-> "", blob |-> name, status |-> "failed", error |-> e]
NoResult == [exc |-> "", blob |-> <<>>, status |-> "none", error |-> ""]

NewJob == [pc |-> "queued", metadata |-> NoItem.metadata, file_path |-> "",
           embeddings |-> <<>>, failed_step |-> "", failed_exc |-> "", result |-> NoResult]

\* History: a call of the batch's workers; a call of the single-item path, in
\* order, with the step at which the environment made a call fail.
Touched(op, name) == [run EXCEPT !.touched = @ \cup {[op |-> op, name |-> name]}]
Logged(op, name, fail) ==
    [run EXCEPT !.touched = @ \cup {[op |-> op, name |-> name]},
                !.log = Append(@, [op |-> op, name |-> name]),
                !.fault_at = IF fail THEN op ELSE @]

\* History: the names at which upload_blob returned without an exception.
WriteDone(h, name, e) == [h EXCEPT !.written = IF e = "" THEN @ \cup {name} ELSE @]

\* ----------------------------------------------------------- the responses
Respond(code, kind, message, bn) ==
    /\ response' = [code |-> code, kind |-> kind, message |-> message, blob_name |-> bn,
                    processed_files |-> EmptyBag, failed_files |-> EmptyBag]
    /\ pc' = "idle"

ResetBatch ==
    /\ blobs' = <<>> /\ jobs' = <<>> /\ work_queue' = <<>> /\ collected' = {}
    /\ processed_files' = EmptyBag /\ failed_files' = EmptyBag /\ raised' = ""

\* ----------------------------------------- /process_embeddings (lines 95-105)
process_embeddings ==
    /\ pc = "idle" /\ requestsLeft > 0
    /\ \E uid \in RequestUserIds :
        /\ user_id' = uid
        /\ IF Falsy(uid)
           THEN Respond(400, "missing", "Missing user_id in request", <<>>)
           ELSE /\ pc' = "b_exists"
                /\ response' = NoResponse
    /\ requestsLeft' = requestsLeft - 1
    /\ endpoint' = "batch"
    /\ blob_name' = None
    /\ ops' = {}
    /\ fatal' = ""
    /\ item' = NoItem
    /\ ResetBatch
    /\ run' = [NoRun EXCEPT !.store0 = embStore]
    /\ UNCHANGED <<storageVars, faultsLeft, normVars, other>>

\* Variant: the existence check without the creation that depends on it.
BatchExists_no_create ==
    /\ pc = "b_exists"
    /\ ops' = ops \cup {"exists"}
    /\ \E fail \in FaultChoices :
        /\ Spend(fail)
        /\ IF fail
           THEN Respond(500, "error", StorageFault, <<>>) /\ fatal' = StorageFault
           ELSE /\ pc' = "b_list"
                /\ UNCHANGED <<response, fatal>>
    /\ UNCHANGED <<storageVars, requestsLeft, endpoint, user_id, blob_name, batchVars, item, normVars, other, run>>

\* Line 70: embeddings_container_client.exists().
BatchExists ==
    /\ pc = "b_exists"
    /\ ops' = ops \cup {"exists"}
    /\ \E fail \in FaultChoices :
        /\ Spend(fail)
        /\ IF fail
           THEN Respond(500, "error", StorageFault, <<>>) /\ fatal' = StorageFault
           ELSE /\ pc' = IF container_exists THEN "b_list" ELSE "b_create"
                /\ UNCHANGED <<response, fatal>>
    /\ UNCHANGED <<storageVars, requestsLeft, endpoint, user_id, blob_name, batchVars, item, normVars, other, run>>

\* Line 71: blob_service_client.create_container(EMBEDDINGS_CONTAINER).
BatchCreate ==
    /\ pc = "b_create"
    /\ ops' = ops \cup {"create"}
    /\ \E fail \in FaultChoices :
        /\ Spend(fail)
        /\ IF fail
           THEN /\ Respond(500, "error", StorageFault, <<>>)
                /\ fatal' = StorageFault
                /\ UNCHANGED container_exists
           ELSE IF container_exists
           THEN /\ Respond(500, "error", "ContainerAlreadyExists", <<>>)
                /\ fatal' = "ContainerAlreadyExists"
                /\ UNCHANGED container_exists
           ELSE /\ container_exists' = TRUE
                /\ pc' = "b_list"
                /\ UNCHANGED <<response, fatal>>
    /\ UNCHANGED <<metadataStore, embStore, lastWritten, requestsLeft, endpoint, user_id,
                   blob_name, batchVars, item, normVars, other, run>>

\* Lines 21-23: the names under "{user_id}/", in listing order.
\* Variant: name_starts_with=user_id, without the "/".
fetch_user_blobs_no_slash(store, uid) ==
    SortNames({name \in DOMAIN store : StartsWith(name, uid)})

fetch_user_blobs(store, uid) ==
    SortNames({name \in DOMAIN store : StartsWith(name, user_prefix(uid))})

\* Variant: a listing failure is swallowed and the batch runs on no blobs.
BatchList_swallow ==
    /\ pc = "b_list"
    /\ ops' = ops \cup {"list"}
    /\ \E fail \in FaultChoices :
        /\ Spend(fail)
        /\ blobs' = IF fail THEN <<>> ELSE fetch_user_blobs(metadataStore, user_id)
        /\ fatal' = IF fail THEN StorageFault ELSE fatal
        /\ pc' = "b_pool"
        /\ UNCHANGED response
    /\ UNCHANGED <<storageVars, requestsLeft, endpoint, user_id, blob_name, jobs, work_queue,
                   collected, processed_files, failed_files, raised, item, normVars, other, run>>

\* Line 73: blobs = list(fetch_user_blobs(...)); a failure anywhere in the lazy
\* listing raises out of list() and no blob is kept.
BatchList ==
    /\ pc = "b_list"
    /\ ops' = ops \cup {"list"}
    /\ \E fail \in FaultChoices :
        /\ Spend(fail)
        /\ IF fail
           THEN /\ Respond(500, "error", StorageFault, <<>>)
                /\ fatal' = StorageFault
                /\ UNCHANGED blobs
           ELSE /\ blobs' = fetch_user_blobs(metadataStore, user_id)
                /\ pc' = "b_pool"
                /\ UNCHANGED <<response, fatal>>
    /\ UNCHANGED <<storageVars, requestsLeft, endpoint, user_id, blob_name, jobs, work_queue,
                   collected, processed_files, failed_files, raised, item, normVars, other, run>>

\* ------------------------------------- the thread pool (lines 78-82)
\* Jobs whose process_single_blob call has started and not yet returned.
InFlight == {i \in 1..Len(jobs) : jobs[i].pc \in {"read", "embed", "write"}}

AllSubmitted == Len(jobs) = Len(blobs)

\* Lines 79-82: executor.submit for the next blob of the list.
Submit ==
    /\ pc = "b_pool"
    /\ Len(jobs) < Len(blobs)
    /\ jobs' = Append(jobs, NewJob)
    /\ work_queue' = Append(work_queue, Len(jobs) + 1)
    /\ UNCHANGED <<storageVars, envVars, reqVars, blobs, collected, processed_files,
                   failed_files, raised, item, normVars, other, run>>

\* Variant: the executor built without max_workers (its default is wider).
WorkerFree_default_width == Cardinality(InFlight) < max_workers + 4

\* Variant: a worker thread ends after its first job instead of taking the
\* next one from the queue.
WorkerFree_no_reuse ==
    Cardinality({i \in 1..Len(jobs) : jobs[i].pc # "queued"}) < max_workers

\* A worker thread is free when fewer than max_workers calls are running.
WorkerFree == Cardinality(InFlight) < max_workers

\* A free worker takes the head of the queue and enters process_single_blob.
WorkerTake ==
    /\ pc = "b_pool"
    /\ work_queue # <<>>
    /\ WorkerFree
    /\ jobs' = [jobs EXCEPT ![Head(work_queue)].pc = "read"]
    /\ work_queue' = Tail(work_queue)
    /\ UNCHANGED <<storageVars, envVars, reqVars, blobs, collected, processed_files,
                   failed_files, raised, item, normVars, other, run>>

\* Variant: no except clause, the exception escapes into the future.
process_single_blob_no_except(name, e) ==
    IF e = "" THEN ReturnSuccess(name)
    ELSE [exc |-> e, blob |-> name, status |-> "none", error |-> ""]

\* Lines 54-63: the try block returns success, the except clause turns any
\* exception into a failed result.
process_single_blob_return(name, e) ==
    IF e = "" THEN ReturnSuccess(name) ELSE ReturnFailed(name, e)

\* Lines 53-63 as one sequential call on `name` against the embeddings
\* container `store`, the environment failing the call named by fault_at: the
\* calls made in order, the value returned and the container afterwards.
process_single_blob(name, fault_at, store) ==
    LET call(op) == [op |-> op, name |-> name]
        r == ReadStep(name, fault_at = "read")
        e == compute_embeddings_with_azure_openai(r.metadata, fault_at = "embed")
        up == upload_blob(store, name, embeddings_data(name, e.embeddings, r.file_path), TRUE)
    IN  IF r.exc # ""
        THEN [log |-> <<call("read")>>, store |-> store,
              result |-> process_single_blob_return(name, r.exc)]
        ELSE IF e.exc # ""
        THEN [log |-> <<call("read"), call("embed")>>, store |-> store,
              result |-> process_single_blob_return(name, e.exc)]
        ELSE IF fault_at = "write"
        THEN [log |-> <<call("read"), call("embed"), call("write")>>, store |-> store,
              result |-> process_single_blob_return(name, StorageFault)]
        ELSE [log |-> <<call("read"), call("embed"), call("write")>>, store |-> up.store,
              result |-> process_single_blob_return(name, up.exc)]

Finished(job, name, e, step) ==
    [job EXCEPT !.pc = "finished", !.failed_step = step, !.failed_exc = e,
                !.result = process_single_blob_return(name, e)]

\* Lines 55-57 in a worker.
JobRead(i) ==
    /\ pc = "b_pool"
    /\ jobs[i].pc = "read"
    /\ ops' = ops \cup {"read"}
    /\ run' = Touched("read", blobs[i])
    /\ \E fail \in FaultChoices :
        /\ Spend(fail)
        /\ LET r == ReadStep(blobs[i], fail)
           IN  jobs' = [jobs EXCEPT ![i] =
                   IF r.exc # "" THEN Finished(@, blobs[i], r.exc, r.step)
                   ELSE [@ EXCEPT !.pc = "embed", !.metadata = r.metadata,
                                  !.file_path = r.file_path]]
    /\ UNCHANGED <<storageVars, requestsLeft, pc, endpoint, user_id, blob_name, response,
                   fatal, blobs, work_queue, collected, processed_files, failed_files, raised,
                   item, normVars, other>>

\* Line 58 in a worker.
JobEmbed(i) ==
    /\ pc = "b_pool"
    /\ jobs[i].pc = "embed"
    /\ ops' = ops \cup {"embed"}
    /\ run' = Touched("embed", blobs[i])
    /\ \E fail \in FaultChoices :
        /\ Spend(fail)
        /\ LET r == compute_embeddings_with_azure_openai(jobs[i].metadata, fail)
           IN  jobs' = [jobs EXCEPT ![i] =
                   IF r.exc # "" THEN Finished(@, blobs[i], r.exc, r.step)
                   ELSE [@ EXCEPT !.pc = "write", !.embeddings = r.embeddings]]
    /\ UNCHANGED <<storageVars, requestsLeft, pc, endpoint, user_id, blob_name, response,
                   fatal, blobs, work_queue, collected, processed_files, failed_files, raised,
                   item, normVars, other>>

\* Variant: the worker itself appends to processed_files after its write.
JobWrite_appends(i) ==
    /\ pc = "b_pool"
    /\ jobs[i].pc = "write"
    /\ ops' = ops \cup {"write"}
    /\ \E fail \in FaultChoices :
        /\ Spend(fail)
        /\ LET r == upload_embeddings(blobs[i], blobs[i], jobs[i].embeddings,
                                      jobs[i].file_path, fail)
           IN  /\ jobs' = [jobs EXCEPT ![i] = Finished(@, blobs[i], r.exc, r.step)]
               /\ run' = WriteDone(Touched("write", blobs[i]), blobs[i], r.exc)
               /\ embStore' = r.store
               /\ lastWritten' = IF r.exc = ""
                                 THEN Written(blobs[i], blobs[i], jobs[i].embeddings,
                                              jobs[i].file_path)
                                 ELSE lastWritten
               /\ processed_files' = IF r.exc = ""
                                     THEN processed_files (+) SetToBag({blobs[i]})
                                     ELSE processed_files
    /\ UNCHANGED <<metadataStore, container_exists, requestsLeft, pc, endpoint, user_id,
                   blob_name, response, fatal, blobs, work_queue, collected,
                   failed_files, raised, item, normVars, other>>

\* Lines 59-61 in a worker.
JobWrite(i) ==
    /\ pc = "b_pool"
    /\ jobs[i].pc = "write"
    /\ ops' = ops \cup {"write"}
    /\ \E fail \in FaultChoices :
        /\ Spend(fail)
        /\ LET r == upload_embeddings(blobs[i], blobs[i], jobs[i].embeddings,
                                      jobs[i].file_path, fail)
           IN  /\ jobs' = [jobs EXCEPT ![i] = Finished(@, blobs[i], r.exc, r.step)]
               /\ run' = WriteDone(Touched("write", blobs[i]), blobs[i], r.exc)
               /\ embStore' = r.store
               /\ lastWritten' = IF r.exc = ""
                                 THEN Written(blobs[i], blobs[i], jobs[i].embeddings,
                                              jobs[i].file_path)
                                 ELSE lastWritten
    /\ UNCHANGED <<metadataStore, container_exists, requestsLeft, pc, endpoint, user_id,
                   blob_name, response, fatal, blobs, work_queue, collected, processed_files,
                   failed_files, raised, item, normVars, other>>

\* Variant: the loop without its else branch, failed results are dropped.
Collect_drop_failed(i) ==
    /\ pc = "b_pool"
    /\ AllSubmitted
    /\ raised = ""
    /\ i \notin collected
    /\ jobs[i].pc = "finished"
    /\ collected' = collected \cup {i}
    /\ LET result == jobs[i].result
       IN  IF result.exc # ""
           THEN raised' = result.exc /\ UNCHANGED <<processed_files, failed_files>>
           ELSE IF result.status = "success"
           THEN /\ processed_files' = processed_files (+) SetToBag({result.blob})
                /\ UNCHANGED <<failed_files, raised>>
           ELSE UNCHANGED <<processed_files, failed_files, raised>>
    /\ UNCHANGED <<storageVars, envVars, reqVars, blobs, jobs, work_queue, item, normVars, other, run>>

\* Lines 83-88: as_completed yields a finished future once every future has
\* been submitted; future.result() returns the value or re-raises.
Collect(i) ==
    /\ pc = "b_pool"
    /\ AllSubmitted
    /\ raised = ""
    /\ i \notin collected
    /\ jobs[i].pc = "finished"
    /\ collected' = collected \cup {i}
    /\ LET result == jobs[i].result
       IN  IF result.exc # ""
           THEN raised' = result.exc /\ UNCHANGED <<processed_files, failed_files>>
           ELSE IF result.status = "success"
           THEN /\ processed_files' = processed_files (+) SetToBag({result.blob})
                /\ UNCHANGED <<failed_files, raised>>
           ELSE /\ failed_files' = failed_files (+)
                        SetToBag({[blob |-> result.blob, error |-> result.error]})
                /\ UNCHANGED <<processed_files, raised>>
    /\ UNCHANGED <<storageVars, envVars, reqVars, blobs, jobs, work_queue, item, normVars, other, run>>

\* Variant: the loop is left at the first failed result.
LoopDone_stop_on_failure == collected = 1..Len(jobs) \/ failed_files # EmptyBag

\* The loop is over when every future has been yielded.
LoopDone == collected = 1..Len(jobs)

\* Variant: the futures that are done are consumed and the result returned
\* without waiting for the others (no with block, no as_completed).
BatchReturn_no_wait ==
    /\ pc = "b_pool"
    /\ AllSubmitted
    /\ \A i \in 1..Len(jobs) : jobs[i].pc = "finished" => i \in collected
    /\ pc' = "idle"
    /\ response' = IF raised = ""
                   THEN [code |-> 200, kind |-> "completed", message |-> "Processing completed",
                         blob_name |-> <<>>, processed_files |-> processed_files,
                         failed_files |-> failed_files]
                   ELSE [code |-> 500, kind |-> "error", message |-> raised,
                         blob_name |-> <<>>, processed_files |-> EmptyBag,
                         failed_files |-> EmptyBag]
    /\ UNCHANGED <<storageVars, envVars, endpoint, user_id, blob_name, ops, fatal, batchVars,
                   item, normVars, other, run>>

\* Variant: a batch with failed items is answered as an error.
BatchReturn_error_on_failures ==
    /\ pc = "b_pool"
    /\ AllSubmitted
    /\ collected = 1..Len(jobs) \/ raised # ""
    /\ \A i \in 1..Len(jobs) : jobs[i].pc = "finished"
    /\ pc' = "idle"
    /\ response' = IF raised = "" /\ failed_files = EmptyBag
                   THEN [code |-> 200, kind |-> "completed", message |-> "Processing completed",
                         blob_name |-> <<>>, processed_files |-> processed_files,
                         failed_files |-> failed_files]
                   ELSE [code |-> 500, kind |-> "error", message |-> "Processing failed",
                         blob_name |-> <<>>, processed_files |-> processed_files,
                         failed_files |-> failed_files]
    /\ UNCHANGED <<storageVars, envVars, endpoint, user_id, blob_name, ops, fatal, batchVars,
                   item, normVars, other, run>>

\* Lines 90-93 and 103, or 104-105: leaving the with block waits for the
\* workers; then the result is returned, or the exception becomes a 500.
BatchReturn ==
    /\ pc = "b_pool"
    /\ AllSubmitted
    /\ LoopDone \/ raised # ""
    /\ \A i \in 1..Len(jobs) : jobs[i].pc = "finished"
    /\ pc' = "idle"
    /\ response' = IF raised = ""
                   THEN [code |-> 200, kind |-> "completed", message |-> "Processing completed",
                         blob_name |-> <<>>, processed_files |-> processed_files,
                         failed_files |-> failed_files]
                   ELSE [code |-> 500, kind |-> "error", message |-> raised,
                         blob_name |-> <<>>, processed_files |-> EmptyBag,
                         failed_files |-> EmptyBag]
    /\ UNCHANGED <<storageVars, envVars, endpoint, user_id, blob_name, ops, fatal, batchVars,
                   item, normVars, other, run>>

\* ------------------------- /process_single_embedding (lines 107-142)
\* Variant: the prefix is added without the startswith test.
Normalize_always(uid, bn) == user_prefix(uid) \o bn

\* Lines 122-123.
Normalize(uid, bn) ==
    IF ~StartsWith(bn, user_prefix(uid)) THEN user_prefix(uid) \o bn ELSE bn

\* Lines 108-113.
process_single_embedding ==
    /\ pc = "idle" /\ requestsLeft > 0
    /\ \E uid \in RequestUserIds, bn \in SingleBlobNames :
        /\ user_id' = uid
        /\ blob_name' = bn
        /\ IF Falsy(uid) \/ Falsy(bn)
           THEN Respond(400, "missing", "Missing user_id or blob_name in request", <<>>)
           ELSE /\ pc' = "s_exists"
                /\ response' = NoResponse
    /\ requestsLeft' = requestsLeft - 1
    /\ endpoint' = "single"
    /\ ops' = {}
    /\ fatal' = ""
    /\ item' = NoItem
    /\ ResetBatch
    /\ run' = [NoRun EXCEPT !.store0 = embStore, !.raw_name = blob_name']
    /\ UNCHANGED <<storageVars, faultsLeft, normVars, other>>

\* Line 118, outside the try block: an exception escapes the view function.
SingleExists ==
    /\ pc = "s_exists"
    /\ ops' = ops \cup {"exists"}
    /\ \E fail \in FaultChoices :
        /\ Spend(fail)
        /\ IF fail
           THEN Respond(500, "unhandled", StorageFault, <<>>) /\ fatal' = StorageFault
           ELSE /\ pc' = IF container_exists THEN "s_read" ELSE "s_create"
                /\ UNCHANGED <<response, fatal>>
    /\ UNCHANGED <<storageVars, requestsLeft, endpoint, user_id, blob_name, batchVars, item, normVars, other, run>>

\* Line 119, outside the try block.
SingleCreate ==
    /\ pc = "s_create"
    /\ ops' = ops \cup {"create"}
    /\ \E fail \in FaultChoices :
        /\ Spend(fail)
        /\ IF fail
           THEN /\ Respond(500, "unhandled", StorageFault, <<>>)
                /\ fatal' = StorageFault
                /\ UNCHANGED container_exists
           ELSE IF container_exists
           THEN /\ Respond(500, "unhandled", "ContainerAlreadyExists", <<>>)
                /\ fatal' = "ContainerAlreadyExists"
                /\ UNCHANGED container_exists
           ELSE /\ container_exists' = TRUE
                /\ pc' = "s_read"
                /\ UNCHANGED <<response, fatal>>
    /\ UNCHANGED <<metadataStore, embStore, lastWritten, requestsLeft, endpoint, user_id,
                   blob_name, batchVars, item, normVars, other, run>>

\* Variant: lines 122-123 left out, the name is used as it was received.
SingleRead_keep_raw ==
    /\ pc = "s_read"
    /\ ops' = ops \cup {"read"}
    /\ blob_name' = blob_name
    /\ \E fail \in FaultChoices :
        /\ Spend(fail)
        /\ run' = Logged("read", blob_name', fail)
        /\ LET r == ReadStep(blob_name', fail)
           IN  IF r.exc # ""
               THEN Respond(500, "error", r.exc, blob_name') /\ UNCHANGED item
               ELSE /\ item' = [item EXCEPT !.metadata = r.metadata, !.file_path = r.file_path]
                    /\ pc' = "s_embed"
                    /\ UNCHANGED response
    /\ UNCHANGED <<storageVars, requestsLeft, endpoint, user_id, fatal, batchVars, normVars, other>>

\* Lines 122-127, and 137-142 when one of them raises.
SingleRead ==
    /\ pc = "s_read"
    /\ ops' = ops \cup {"read"}
    /\ blob_name' = Normalize(user_id, blob_name)
    /\ \E fail \in FaultChoices :
        /\ Spend(fail)
        /\ run' = Logged("read", blob_name', fail)
        /\ LET r == ReadStep(blob_name', fail)
           IN  IF r.exc # ""
               THEN Respond(500, "error", r.exc, blob_name') /\ UNCHANGED item
               ELSE /\ item' = [item EXCEPT !.metadata = r.metadata, !.file_path = r.file_path]
                    /\ pc' = "s_embed"
                    /\ UNCHANGED response
    /\ UNCHANGED <<storageVars, requestsLeft, endpoint, user_id, fatal, batchVars, normVars, other>>

\* Variant: a failed embedding call is ignored and an empty vector is stored.
SingleEmbed_ignore_failure ==
    /\ pc = "s_embed"
    /\ ops' = ops \cup {"embed"}
    /\ \E fail \in FaultChoices :
        /\ Spend(fail)
        /\ run' = Logged("embed", blob_name, fail)
        /\ LET r == compute_embeddings_with_azure_openai(item.metadata, fail)
           IN  /\ item' = [item EXCEPT !.embeddings = r.embeddings]
               /\ pc' = "s_write"
               /\ UNCHANGED response
    /\ UNCHANGED <<storageVars, requestsLeft, endpoint, user_id, blob_name, fatal, batchVars,
                   normVars, other>>

\* Line 128.
SingleEmbed ==
    /\ pc = "s_embed"
    /\ ops' = ops \cup {"embed"}
    /\ \E fail \in FaultChoices :
        /\ Spend(fail)
        /\ run' = Logged("embed", blob_name, fail)
        /\ LET r == compute_embeddings_with_azure_openai(item.metadata, fail)
           IN  IF r.exc # ""
               THEN Respond(500, "error", r.exc, blob_name) /\ UNCHANGED item
               ELSE /\ item' = [item EXCEPT !.embeddings = r.embeddings]
                    /\ pc' = "s_write"
                    /\ UNCHANGED response
    /\ UNCHANGED <<storageVars, requestsLeft, endpoint, user_id, blob_name, fatal, batchVars,
                   normVars, other>>

\* Lines 129-136.
SingleWrite ==
    /\ pc = "s_write"
    /\ ops' = ops \cup {"write"}
    /\ \E fail \in FaultChoices :
        /\ Spend(fail)
        /\ LET r == upload_embeddings(blob_name, blob_name, item.embeddings,
                                      item.file_path, fail)
           IN  /\ embStore' = r.store
               /\ run' = WriteDone(Logged("write", blob_name, fail), blob_name, r.exc)
               /\ lastWritten' = IF r.exc = ""
                                 THEN Written(blob_name, blob_name, item.embeddings,
                                              item.file_path)
                                 ELSE lastWritten
               /\ IF r.exc # ""
                  THEN Respond(500, "error", r.exc, blob_name)
                  ELSE Respond(200, "success",
                               "Embeddings generated and stored successfully", blob_name)
    /\ UNCHANGED <<metadataStore, container_exists, requestsLeft, endpoint, user_id,
                   blob_name, fatal, batchVars, item, normVars, other>>

\* ------------------------------------------------------- the specifications
Next ==
    \/ process_embeddings
    \/ BatchExists
    \/ BatchCreate
    \/ BatchList
    \/ Submit
    \/ WorkerTake
    \/ \E i \in 1..Len(jobs) : JobRead(i)
    \/ \E i \in 1..Len(jobs) : JobEmbed(i)
    \/ \E i \in 1..Len(jobs) : JobWrite(i)
    \/ \E i \in 1..Len(jobs) : Collect(i)
    \/ BatchReturn
    \/ process_single_embedding
    \/ SingleExists
    \/ SingleCreate
    \/ SingleRead
    \/ SingleEmbed
    \/ SingleWrite

Spec == Init /\ [][Next]_vars

\* One request over a job list longer than the pool is wide.
InitPool == MainInit(PoolBlobs, PoolFaults, 1) /\ NormOff /\ other = NoOther

SpecPool == InitPool /\ [][Next]_vars

\* --------------------------------------------- two requests, two threads
\* app.run(threaded=True): a second request is served on another thread while
\* the first one runs.  Of the second request the provisioning is modelled,
\* which both endpoints start with (lines 69-71 and 117-119).
OtherExists ==
    /\ other.pc = "exists"
    /\ other' = [other EXCEPT !.pc = IF container_exists THEN "done" ELSE "create"]
    /\ UNCHANGED <<storageVars, envVars, reqVars, batchVars, item, normVars, run>>

\* create_container raises ResourceExistsError when the container exists.
OtherCreate ==
    /\ other.pc = "create"
    /\ IF container_exists
       THEN /\ other' = [pc |-> "failed", error |-> "ContainerAlreadyExists"]
            /\ UNCHANGED container_exists
       ELSE /\ other' = [other EXCEPT !.pc = "done"]
            /\ container_exists' = TRUE
    /\ UNCHANGED <<metadataStore, embStore, lastWritten, envVars, reqVars, batchVars, item,
                   normVars, run>>

\* The embeddings container is absent and the second request has arrived.
InitConc ==
    /\ MainInit(MaxBlobs, 0, 1)
    /\ container_exists = FALSE
    /\ NormOff
    /\ other = [pc |-> "exists", error |-> ""]

NextConc ==
    \/ Next
    \/ OtherExists
    \/ OtherCreate

SpecConc == InitConc /\ [][NextConc]_vars

\* The threads of a batch request: the pool's workers, and the request thread
\* that provisions, lists, submits, consumes the futures and returns.  Each is
\* scheduled as long as it can take a step, and each external call returns.
WorkerStep ==
    \/ WorkerTake
    \/ \E i \in 1..Len(jobs) : JobRead(i) \/ JobEmbed(i) \/ JobWrite(i)

CoordinatorStep ==
    \/ BatchExists
    \/ BatchCreate
    \/ BatchList
    \/ Submit
    \/ \E i \in 1..Len(jobs) : Collect(i)
    \/ BatchReturn

\* One request; user u owns one object more than the pool has workers.
InitFair == MainInit(max_workers + 1, PoolFaults, 1) /\ NormOff /\ other = NoOther

SpecPoolFair ==
    InitFair /\ [][Next]_vars /\ WF_vars(WorkerStep) /\ WF_vars(CoordinatorStep)

\* Normalization on its own: all short names over a small alphabet.
NormAlphabet == {"u", "/", "a"}
StringsUpTo(n) == UNION {[1..k -> NormAlphabet] : k \in 0..n}

InitNorm ==
    /\ MainInit(0, 0, 0)
    /\ n_user \in StringsUpTo(MaxLen - 1) \ {<<>>}
    /\ n_name \in StringsUpTo(MaxLen) \ {<<>>}
    /\ n_once = <<>> /\ n_twice = <<>>
    /\ n_pc = "in"
    /\ other = NoOther

NormalizeOnce ==
    /\ n_pc = "in"
    /\ n_once' = Normalize(n_user, n_name)
    /\ n_pc' = "once"
    /\ UNCHANGED <<storageVars, envVars, reqVars, batchVars, item, n_user, n_name, n_twice, other, run>>

NormalizeAgain ==
    /\ n_pc = "once"
    /\ n_twice' = Normalize(n_user, n_once)
    /\ n_pc' = "twice"
    /\ UNCHANGED <<storageVars, envVars, reqVars, batchVars, item, n_user, n_name, n_once, other, run>>

NextNorm == NormalizeOnce \/ NormalizeAgain

SpecNorm == InitNorm /\ [][NextNorm]_vars

\* ------------------------------------------------------------------ claims
BatchResponded == endpoint = "batch" /\ pc = "idle"
BatchCompleted == BatchResponded /\ response.kind = "completed"

RECURSIVE SumCopies(_, _)
SumCopies(S, B) ==
    IF S = {} THEN 0
    ELSE LET e == CHOOSE x \in S : TRUE
         IN  CopiesIn(e, B) + SumCopies(S \ {e}, B)

\* Entries of failed_files that name `name`.
FailedCopies(name, F) == SumCopies({e \in BagToSet(F) : e.blob = name}, F)

\* C1: the result returned by a batch run over N enumerated objects holds N
\* entries in processed_files and failed_files together, and every enumerated
\* identifier is in exactly one of the two, once.
C1_Partition ==
    BatchCompleted =>
        LET P == response.processed_files
            F == response.failed_files
        IN  /\ \A i, j \in 1..Len(blobs) : blobs[i] = blobs[j] => i = j
            /\ BagCardinality(P) + BagCardinality(F) = Len(blobs)
            /\ \A i \in 1..Len(blobs) : CopiesIn(blobs[i], P) + FailedCopies(blobs[i], F) = 1

C1_Witness ==
    /\ BatchCompleted
    /\ Len(blobs) = 3
    /\ BagCardinality(response.processed_files) = 2
    /\ BagCardinality(response.failed_files) = 1

\* C2: at most 5 process_single_blob calls have started and not yet returned.
C2_AtMostFiveInFlight ==
    Cardinality({i \in 1..Len(jobs) : jobs[i].pc \in {"read", "embed", "write"}}) <= 5

C2_Witness ==
    /\ Len(blobs) > 5
    /\ Cardinality({i \in 1..Len(jobs) : jobs[i].pc \in {"read", "embed", "write"}}) = 5
    /\ work_queue # <<>>

\* C3: when a batch has answered, every enumerated item has been executed, and
\* every item none of whose steps failed has its output object in the
\* embeddings container and its identifier in processed_files, whatever
\* happened to the other items.
C3_Isolation ==
    (BatchResponded /\ ~(user_id \in {None, <<>>}) /\ fatal = "") =>
        /\ Len(jobs) = Len(blobs)
        /\ \A i \in 1..Len(blobs) :
            /\ jobs[i].pc = "finished"
            /\ jobs[i].failed_step = "" =>
                /\ CopiesIn(blobs[i], response.processed_files) = 1
                /\ \E o \in embStore : o.name = blobs[i] /\ o.data.file_name = blobs[i]
                                       /\ o.data.embeddings = jobs[i].embeddings

C3_Witness ==
    /\ BatchCompleted
    /\ \E i, j, k \in 1..Len(blobs) :
        /\ jobs[i].failed_step = "parse" /\ jobs[j].failed_step = "write"
        /\ jobs[k].failed_step = ""
        /\ CopiesIn(blobs[k], response.processed_files) = 1

\* C4: no exception escapes process_single_blob: a step that raises gives a
\* failed result carrying the item's identifier and the exception's message,
\* and future.result() never raises in the batch loop.
C4_NoEscape ==
    /\ raised = ""
    /\ \A i \in 1..Len(jobs) :
        jobs[i].pc = "finished" =>
            /\ jobs[i].result.exc = ""
            /\ jobs[i].failed_step # "" =>
                jobs[i].result = [exc |-> "", blob |-> blobs[i], status |-> "failed",
                                  error |-> jobs[i].failed_exc]

C4_Witness ==
    /\ BatchCompleted
    /\ \E i, j \in 1..Len(jobs) :
        /\ jobs[i].failed_step = "read" /\ jobs[j].failed_step = "embed"
        /\ {i, j} \subseteq collected

\* C5: a batch request with a user_id whose provisioning and enumeration
\* succeeded is answered 200 "Processing completed" however many items failed;
\* the item failures are in failed_files.
C5_SuccessDespiteFailures ==
    (BatchResponded /\ ~(user_id \in {None, <<>>}) /\ fatal = "") =>
        /\ response.code = 200
        /\ response.message = "Processing completed"
        /\ response.processed_files = processed_files
        /\ response.failed_files = failed_files
        /\ \A i \in 1..Len(jobs) :
            jobs[i].failed_step # "" =>
                CopiesIn([blob |-> blobs[i], error |-> jobs[i].failed_exc],
                         response.failed_files) = 1

\* Every item of a non-empty batch failed.
C5_Witness ==
    /\ BatchResponded /\ fatal = ""
    /\ Len(blobs) >= 2
    /\ BagCardinality(response.failed_files) = Len(blobs)
    /\ response.code = 200

\* C6: in a batch request the existence check (and the creation, if the
\* container was absent) is over before the listing starts and before any item
\* is read, embedded or written, and it is made also when the user has no
\* objects.
C6_ProvisionFirst ==
    endpoint = "batch" =>
        /\ (pc = "b_list" \/ ops \cap {"list", "read", "embed", "write"} # {}) =>
              "exists" \in ops /\ container_exists
        /\ BatchCompleted => "exists" \in ops /\ container_exists

C6_Witness ==
    /\ BatchCompleted
    /\ Len(blobs) = 0
    /\ "create" \in ops

\* C7: a provisioning or enumeration failure of a batch request is answered
\* with an error response carrying the failure's detail; no job is started, no
\* embedding is computed and nothing is written.
C7_FatalAborts ==
    (endpoint = "batch" /\ fatal # "") =>
        /\ pc = "idle"
        /\ response.code = 500 /\ response.kind = "error" /\ response.message = fatal
        /\ blobs = <<>> /\ jobs = <<>>
        /\ ops \cap {"read", "embed", "write"} = {}

C7_Witness ==
    /\ endpoint = "batch" /\ fatal = StorageFault /\ "list" \in ops
    /\ "create" \in ops
    /\ response.code = 500

\* C8: a batch request without user_id, and a single-item request without
\* user_id or blob_name, is answered with the missing-parameter error and makes
\* no storage or embedding call.
C8_MissingParameter ==
    (\/ endpoint = "batch" /\ user_id \in {None, <<>>}
     \/ endpoint = "single" /\ (user_id \in {None, <<>>} \/ blob_name \in {None, <<>>})) =>
        /\ pc = "idle"
        /\ response.code = 400 /\ response.kind = "missing"
        /\ ops = {}
        /\ jobs = <<>>

C8_Witness ==
    /\ endpoint = "single"
    /\ user_id = <<"u">> /\ blob_name = None
    /\ response.code = 400
    /\ ~container_exists

\* C9: the normalized name starts with "{user_id}/"; a name that already
\* starts with it is unchanged, any other name gets the prefix; normalizing
\* the result again changes nothing.
C9_Normalization ==
    n_pc \in {"once", "twice"} =>
        LET prefix == n_user \o <<"/">>
            Carries(x) == /\ Len(x) >= Len(prefix)
                          /\ \A k \in 1..Len(prefix) : x[k] = prefix[k]
        IN  /\ Carries(n_once)
            /\ Carries(n_name) => n_once = n_name
            /\ ~Carries(n_name) => n_once = prefix \o n_name
            /\ n_pc = "twice" => n_twice = n_once

C9_Witness ==
    /\ n_pc = "twice"
    /\ n_user = <<"u">> /\ n_name = <<"u", "/", "a">>
    /\ n_twice = <<"u", "/", "a">>

\* C10: the embeddings container holds exactly one object per identifier ever
\* written, equal to the record of the last successful write there; objects at
\* other identifiers are as they were; and no write fails because an object is
\* already there.
C10_Overwrite ==
    /\ embStore = {[name |-> n, data |-> lastWritten[n].data] : n \in DOMAIN lastWritten}
    /\ \A o1, o2 \in embStore : o1.name = o2.name => o1 = o2
    /\ response.message # "BlobAlreadyExists"
    /\ \A i \in 1..Len(jobs) : jobs[i].failed_exc # "BlobAlreadyExists"

\* An identifier written by two requests, the second one a batch.
C10_Witness ==
    /\ BatchCompleted
    /\ \E n \in DOMAIN lastWritten :
        /\ lastWritten[n].count = 2
        /\ CopiesIn(n, response.processed_files) = 1

\* C11: when a batch response has been returned no enumerated job is
\* unsubmitted, queued or in flight: every job has finished and its outcome
\* has been consumed by the loop.
C11_ResponseAfterAllJobs ==
    BatchResponded =>
        /\ Len(jobs) = Len(blobs)
        /\ work_queue = <<>>
        /\ \A i \in 1..Len(jobs) : jobs[i].pc = "finished" /\ i \in collected
        /\ BagCardinality(processed_files) + BagCardinality(failed_files) = Len(jobs)

C11_Witness ==
    /\ BatchCompleted
    /\ Len(jobs) = 3
    /\ collected = {1, 2, 3}
    /\ "create" \in ops

FailedNames(F) == {e.blob : e \in BagToSet(F)}

ObjectsAt(store, name) == {o \in store : o.name = name}

\* C13: at a completed batch the processed list holds exactly the identifiers
\* at which an embedding object was written during the request and the failed
\* list exactly the identifiers whose processing failed; an item that failed
\* at read, parse or embedding made no write call and left the objects at its
\* identifier as they were; an item whose content does not parse is never in
\* the processed list.
C13_ListsMatchWrites ==
    BatchCompleted =>
        /\ BagToSet(response.processed_files) = run.written
        /\ FailedNames(response.failed_files) =
              {blobs[i] : i \in {k \in 1..Len(jobs) : jobs[k].failed_step # ""}}
        /\ run.written \cap FailedNames(response.failed_files) = {}
        /\ Cardinality(run.written) + Cardinality(FailedNames(response.failed_files))
              = Len(blobs)
        /\ \A i \in 1..Len(jobs) :
            /\ jobs[i].failed_step \in {"read", "parse", "embed"} =>
                /\ [op |-> "write", name |-> blobs[i]] \notin run.touched
                /\ ObjectsAt(embStore, blobs[i]) = ObjectsAt(run.store0, blobs[i])
            /\ json_loads(metadataStore[blobs[i]]).type # "dict" =>
                /\ blobs[i] \notin BagToSet(response.processed_files)
                /\ blobs[i] \in FailedNames(response.failed_files)
            /\ blobs[i] \in run.written =>
                \E o \in embStore : o.name = blobs[i] /\ o.data.file_name = blobs[i]

\* Three objects, one of which does not parse: two processed, one failed, two
\* objects written.
C13_Witness ==
    /\ BatchCompleted
    /\ Len(blobs) = 3
    /\ BagCardinality(response.processed_files) = 2
    /\ BagCardinality(response.failed_files) = 1
    /\ Cardinality(run.written) = 2
    /\ \E i \in 1..3 : jobs[i].failed_step = "parse" /\ jobs[i].failed_exc = "JSONDecodeError"

\* A single-item request with both fields present has been answered from
\* inside the try block.
SingleAnswered ==
    /\ endpoint = "single" /\ pc = "idle"
    /\ response.kind \in {"success", "error"}
    /\ fatal = ""

\* C14: the blob_name of a single-item response, success or error, is the
\* received name if that starts with "<user_id>/" and "<user_id>/" followed by
\* the received name otherwise; on success the only object written in the
\* request is at that name and its file_name is that name.
C14_ResponseNamesNormalized ==
    SingleAnswered =>
        /\ StartsWith(response.blob_name, user_id \o <<"/">>)
        /\ IF StartsWith(run.raw_name, user_id \o <<"/">>)
           THEN response.blob_name = run.raw_name
           ELSE response.blob_name = user_id \o <<"/">> \o run.raw_name
        /\ response.kind = "success" =>
            /\ response.code = 200
            /\ run.written = {response.blob_name}
            /\ \E o \in embStore :
                /\ o.name = response.blob_name
                /\ o.data.file_name = response.blob_name
                /\ \A q \in embStore : q.name = o.name => q = o
        /\ response.kind = "error" => response.code = 500 /\ run.written = {}

\* A success for a name received without the prefix.
C14_Witness ==
    /\ SingleAnswered
    /\ response.kind = "success"
    /\ user_id = <<"u">>
    /\ run.raw_name = <<"a">>
    /\ response.blob_name = <<"u", "/", "a">>

\* C15: a single-item request that passed provisioning made the calls, left
\* the embeddings container and gave the outcome of one process_single_blob
\* call on the normalized name, made after the container was provisioned.
C15_SingleIsOneTransform ==
    SingleAnswered =>
        LET name == Normalize(user_id, run.raw_name)
            ref == process_single_blob(name, run.fault_at, run.store0)
        IN  /\ "exists" \in ops /\ container_exists
            /\ run.log = ref.log
            /\ embStore = ref.store
            /\ response.blob_name = ref.result.blob
            /\ (response.kind = "success") = (ref.result.status = "success")
            /\ (response.kind = "error") = (ref.result.status = "failed")
            /\ response.kind = "error" => response.message = ref.result.error

\* A request whose embedding call failed after the read.
C15_Witness ==
    /\ SingleAnswered
    /\ run.fault_at = "embed"
    /\ Len(run.log) = 2
    /\ response.kind = "error"
    /\ response.message = EmbeddingFault

\* C16: a single-item request whose existence check or container creation
\* failed is answered by the handler with an error response carrying the
\* failure, as in the batch path, and has made no read, embedding call or
\* write.
C16_ProvisionFailureHandled ==
    (endpoint = "single" /\ pc = "idle" /\ fatal # "") =>
        /\ response.kind = "error"
        /\ response.code = 500
        /\ response.message = fatal
        /\ ops \cap {"read", "embed", "write"} = {}
        /\ run.touched = {}

\* Every enumerated job has been dispatched, has finished and has been
\* consumed, and the result has been returned.
AllJobsDone ==
    /\ BatchCompleted
    /\ Len(jobs) = Len(blobs)
    /\ \A i \in 1..Len(jobs) : jobs[i].pc = "finished" /\ i \in collected

\* C17: with the workers and the request thread scheduled fairly and every
\* external call returning or failing, an accepted batch request is eventually
\* answered, and unless provisioning or listing failed the answer is the
\* result of a run in which every enumerated job was dispatched and produced
\* its outcome, also when there are more jobs than workers.
C17_BatchTerminates ==
    (endpoint = "batch" /\ pc # "idle") ~> (pc = "idle" /\ (fatal = "" => AllJobsDone))

\* A batch of more than max_workers jobs has returned.
C17_Witness ==
    /\ BatchCompleted
    /\ Len(blobs) > max_workers
    /\ Len(jobs) = Len(blobs)
    /\ collected = 1..Len(blobs)

\* A step of the worker running job i: the job is inside process_single_blob
\* and its record changes.
WorkerMoved(i) ==
    /\ pc = "b_pool"
    /\ Len(jobs') = Len(jobs)
    /\ jobs[i].pc \in {"read", "embed", "write"}
    /\ jobs'[i] # jobs[i]

\* C18: a step of a worker changes neither processed_files nor failed_files
\* nor the record of any other job, and changes the embeddings container only
\* at its own job's name, where after a successful write the one object is the
\* data computed from that job's metadata; the two lists change during the
\* pool phase only in a step of the request thread that consumes a finished
\* future, which changes no job and no stored object.
C18_WorkersShareNothing ==
    [][/\ \A i \in 1..Len(jobs) :
            WorkerMoved(i) =>
                /\ processed_files' = processed_files
                /\ failed_files' = failed_files
                /\ collected' = collected
                /\ blobs' = blobs
                /\ metadataStore' = metadataStore
                /\ \A j \in 1..Len(jobs) : j # i => jobs'[j] = jobs[j]
                /\ \A o \in embStore \cup embStore' :
                      o.name # blobs[i] => (o \in embStore /\ o \in embStore')
                /\ (jobs'[i].pc = "finished" /\ jobs'[i].result.status = "success") =>
                      ObjectsAt(embStore', blobs[i]) =
                          {[name |-> blobs[i],
                            data |-> embeddings_data(blobs[i], jobs[i].embeddings,
                                                     jobs[i].file_path)]}
       /\ (/\ pc = "b_pool" /\ pc' = "b_pool"
           /\ <<processed_files, failed_files>>' # <<processed_files, failed_files>>) =>
                /\ \E i \in 1..Len(jobs) :
                      /\ jobs[i].pc = "finished"
                      /\ collected' = collected \cup {i} /\ i \notin collected
                /\ jobs' = jobs
                /\ embStore' = embStore
      ]_vars

\* Two workers are about to write while a third job's outcome has already
\* been consumed by the request thread.
C18_Witness ==
    /\ pc = "b_pool"
    /\ Len(jobs) = 3
    /\ jobs[1].pc = "write" /\ jobs[3].pc = "write"
    /\ 2 \in collected
    /\ BagCardinality(failed_files) = 1

\* C19: with two requests served concurrently and the embeddings container
\* absent at the start, create_container is never called while the container
\* exists: no request fails because the other created the container between
\* its existence check and its create.
C19_NoCreateRace ==
    /\ fatal # "ContainerAlreadyExists"
    /\ other.error # "ContainerAlreadyExists"
    /\ (other.pc = "create" /\ pc \in {"b_create", "s_create"}) => ~container_exists

\* C20: in a request for user U every read, embedding call and write is for a
\* name starting with "U/"; a name is written only after the same name was
\* read, and the object written carries that name as file_name; objects of the
\* embeddings container outside "U/" are as they were when the request
\* arrived; the metadata container is never written.
C20_NamespaceConfinement ==
    /\ metadataStore = MetadataWith(MaxBlobs)
    /\ endpoint # "none" =>
        /\ \A t \in run.touched :
            /\ StartsWith(t.name, user_id \o <<"/">>)
            /\ t.op = "write" => [op |-> "read", name |-> t.name] \in run.touched
        /\ \A n \in run.written :
            /\ [op |-> "write", name |-> n] \in run.touched
            /\ \E o \in embStore : o.name = n /\ o.data.file_name = n
        /\ \A o \in embStore \cup run.store0 :
            ~StartsWith(o.name, user_id \o <<"/">>) => (o \in embStore /\ o \in run.store0)

\* A batch for user u has written u's objects while the object of user uv and
\* the stale object of user v are untouched.
C20_Witness ==
    /\ BatchCompleted
    /\ user_id = <<"u">>
    /\ Cardinality(run.written) = 2
    /\ <<"u", "v", "/", "a">> \in DOMAIN metadataStore
    /\ [name |-> <<"v", "/", "b">>, data |-> StaleData] \in embStore
    /\ \A n \in run.written : SubSeq(n, 1, 2) = <<"u", "/">>

====
